---- MODULE Spec2Model ----
(***************************************************************************)
(* Model of the minikey firmware: the main loop of src/src/main.rs (USB    *)
(* poll, matrix scan, edge classification, report emission) together with  *)
(* the macro tables of src/src/keypad.rs.                                  *)
(*                                                                         *)
(* The keys of the physical matrix are the environment. A key may change   *)
(* at any moment of the run (action KeyEvent); the number of key changes   *)
(* of a run is bounded by MaxEvents.                                       *)
(***************************************************************************)
EXTENDS Integers, Sequences, FiniteSets

\* main.rs:37-38
ROWS == 4
COLS == 4

\* Number of key changes (one switch closing or opening) in a run.
MaxEvents == 2

\* Number of key changes in a run of the fair specification LiveSpec.
LiveEvents == 1

RowIdx == 0..(ROWS - 1)
ColIdx == 0..(COLS - 1)

\* HID usage ids of the KeyCode enumeration (mod keycode, USB HID usage table).
KeyCode_A == 4
KeyCode_B == 5
KeyCode_N == 17
KeyCode_P == 19
KeyCode_LEFTCTRL == 224

\* keypad.rs:19-24
TMUX_LEAD == <<KeyCode_LEFTCTRL, KeyCode_B>>
TMUX_NEXT == <<KeyCode_N>>
TMUX_PREV == <<KeyCode_P>>
TMUX_NEXT_MACRO == <<TMUX_LEAD, TMUX_NEXT>>
TMUX_PREV_MACRO == <<TMUX_LEAD, TMUX_PREV>>

\* keypad.rs:28-33
MACRO_MATRIX == <<TMUX_PREV_MACRO, TMUX_NEXT_MACRO>>

\* keypad.rs:13-15: "Macro at (0,0) is triggered by key (0,0), etc."; the
\* entries follow the order in which the main loop visits the positions.
MacroIndex(c, r) == c * ROWS + r + 1
IsBound(c, r) == MacroIndex(c, r) <= Len(MACRO_MATRIX)
MacroOf(c, r) == MACRO_MATRIX[MacroIndex(c, r)]

VARIABLES
    pc,         \* position of the program in main / scan_matrix / send_press
    ci,         \* column index of the running loop (scan or processing)
    ri,         \* row index of the running loop (scan or processing)
    colLine,    \* level of each column output line
    matrix,     \* scan_matrix's matrix, then main's scanned_matrix
    state,      \* main's `state`
    led,        \* level of the status LED line
    report,     \* send_press's `report`
    switches,   \* environment: which key switches are closed
    events,     \* environment: key changes so far
    reports,    \* history: reports pushed since the last call of scan_matrix
    prevMatrix, \* history: the snapshot returned by the previous scan
    classes,    \* history: the match arm taken for each position in this scan
    polls,      \* history: USB polls since the last call of scan_matrix
    writes,     \* history: writes of matrix[c][r] in this scan
    settled,    \* history: the settle delay after set_high has elapsed
    failed,     \* history: a push_input has returned an error
    gap,        \* history: what followed the last push of this iteration
    lastKind,   \* history: the kind of the last report pushed in the run
    balance     \* history: Pressed arms taken minus Released arms taken

vars == <<pc, ci, ri, colLine, matrix, state, led, report, switches, events,
          reports, prevMatrix, classes, polls, writes, settled, failed, gap,
          lastKind, balance>>

AllFalse == [c \in ColIdx |-> [r \in RowIdx |-> FALSE]]
NoClass == [c \in ColIdx |-> [r \in RowIdx |-> "-"]]
NoWrites == [c \in ColIdx |-> [r \in RowIdx |-> 0]]

\* main.rs:41-46
EmptyReport == [modifier |-> 0, reserved |-> 0, leds |-> 0,
                keycodes |-> [s \in 0..5 |-> 0]]

\* main.rs:41-48: the report of the press
PressReport_slot1(key) == [EmptyReport EXCEPT !.keycodes[1] = key]
PressReport(key) == [EmptyReport EXCEPT !.keycodes[0] = key]

\* main.rs:52: the same report with slot 0 cleared
ReleaseReport_keeps(rep) == rep
ReleaseReport(rep) == [rep EXCEPT !.keycodes[0] = 0]

\* main.rs:118-123, 69: a pulled-down row line reads high when a closed switch
\* connects it to a column line that is high
RowIsHigh(r) == \E c \in ColIdx : colLine[c] /\ switches[c][r]

\* main.rs:163-171: the arm of the match
MatchArm_level(previous_state, row) ==
    IF row THEN "Pressed"
    ELSE IF previous_state THEN "Released"
    ELSE "NoChange"

MatchArm(previous_state, row) ==
    IF ~previous_state /\ row THEN "Pressed"
    ELSE IF previous_state /\ ~row THEN "Released"
    ELSE "NoChange"

\* main.rs:164-167: the arm that calls send_press
CallsSendPress_onRelease(arm) == arm \in {"Pressed", "Released"}
CallsSendPress(arm) == arm = "Pressed"

\* main.rs:165, 169: the LED after the arm
LedAfter_neverLow(arm, old) == IF arm = "Pressed" THEN TRUE ELSE old
LedAfter(arm, old) ==
    IF arm = "Pressed" THEN TRUE ELSE IF arm = "Released" THEN FALSE ELSE old

\* main.rs:166: the keycode sent for the key at (c, r)
SingleKey(c, r) == KeyCode_A

\* main.rs:161: the tracker state after the position
StateAfter_onlyOnPress(previous_state, row) ==
    IF ~previous_state /\ row THEN row ELSE previous_state
StateAfter(previous_state, row) == row

\* main.rs:49, 53: unwrap of the result of push_input; an Err panics and
\* panic_probe halts the core
Unwrap_ignores(ok, next) == next
Unwrap(ok, next) == IF ok THEN next ELSE "halted"

\* main.rs:49, 53: the kind of a pushed report
KindOf(rep) ==
    IF \A s \in 0..5 : rep.keycodes[s] = 0 THEN "zero" ELSE "nonzero"

\* main.rs:50, 54: one delay_ms(USB_POLLING_RATE_MS) has elapsed
AfterDelay(g) ==
    IF g = "pushed" THEN "delayed" ELSE IF g = "delayed" THEN "twice" ELSE g

\* main.rs:153: where the loop goes after the last position
LoopBack_stops == "halted"
LoopBack_skipsPoll == "scan_enter"
LoopBack == "poll"

Init ==
    /\ pc = "poll"
    /\ ci = 0
    /\ ri = 0
    /\ colLine = [c \in ColIdx |-> FALSE]
    /\ matrix = AllFalse
    /\ state = FALSE
    /\ led = FALSE
    /\ report = EmptyReport
    /\ switches = AllFalse
    /\ events = 0
    /\ reports = <<>>
    /\ prevMatrix = AllFalse
    /\ classes = NoClass
    /\ polls = 0
    /\ writes = NoWrites
    /\ settled = FALSE
    /\ failed = FALSE
    /\ gap = "none"
    /\ lastKind = "none"
    /\ balance = 0

\* Environment: one key closes or opens, at any moment before a halt.
KeyEvent ==
    /\ pc # "halted"
    /\ events < MaxEvents
    /\ \E c \in ColIdx, r \in RowIdx :
         switches' = [switches EXCEPT ![c][r] = ~switches[c][r]]
    /\ events' = events + 1
    /\ UNCHANGED <<pc, ci, ri, colLine, matrix, state, led, report, reports,
                   prevMatrix, classes, polls, writes, settled,
                   failed, gap, lastKind, balance>>

\* main.rs:154
Poll ==
    /\ pc = "poll"
    /\ pc' = "scan_enter"
    /\ polls' = IF polls < 2 THEN polls + 1 ELSE polls
    /\ UNCHANGED <<ci, ri, colLine, matrix, state, led, report, switches,
                   events, reports, prevMatrix, classes, writes, settled,
                   failed, gap, lastKind, balance>>

\* main.rs:156, 62: scan_matrix is called and starts from an all-false matrix
ScanEnter ==
    /\ pc = "scan_enter"
    /\ matrix' = AllFalse
    /\ prevMatrix' = matrix
    /\ ci' = 0
    /\ ri' = 0
    /\ pc' = "set_high"
    /\ polls' = 0
    /\ reports' = <<>>
    /\ classes' = NoClass
    /\ writes' = NoWrites
    /\ gap' = "none"
    /\ UNCHANGED <<colLine, state, led, report, switches, events, settled,
                   failed, lastKind, balance>>

\* main.rs:65
SetHigh ==
    /\ pc = "set_high"
    /\ colLine' = [colLine EXCEPT ![ci] = TRUE]
    /\ pc' = "settle_high"
    /\ UNCHANGED <<ci, ri, matrix, state, led, report, switches, events,
                   reports, prevMatrix, classes, polls, writes, settled,
                   failed, gap, lastKind, balance>>

\* main.rs:66
SettleHigh ==
    /\ pc = "settle_high"
    /\ settled' = TRUE
    /\ ri' = 0
    /\ pc' = "sample"
    /\ UNCHANGED <<ci, colLine, matrix, state, led, report, switches, events,
                   reports, prevMatrix, classes, polls, writes,
                   failed, gap, lastKind, balance>>

\* main.rs:68-70
SampleRow_firstRow ==
    /\ pc = "sample"
    /\ matrix' = [matrix EXCEPT ![ci][ri] = RowIsHigh(0)]
    /\ writes' = [writes EXCEPT ![ci][ri] = @ + 1]
    /\ IF ri + 1 < ROWS
         THEN ri' = ri + 1 /\ pc' = "sample"
         ELSE ri' = 0 /\ pc' = "set_low"
    /\ UNCHANGED <<ci, colLine, state, led, report, switches, events, reports,
                   prevMatrix, classes, polls, settled,
                   failed, gap, lastKind, balance>>

SampleRow ==
    /\ pc = "sample"
    /\ matrix' = [matrix EXCEPT ![ci][ri] = RowIsHigh(ri)]
    /\ writes' = [writes EXCEPT ![ci][ri] = @ + 1]
    /\ IF ri + 1 < ROWS
         THEN ri' = ri + 1 /\ pc' = "sample"
         ELSE ri' = 0 /\ pc' = "set_low"
    /\ UNCHANGED <<ci, colLine, state, led, report, switches, events, reports,
                   prevMatrix, classes, polls, settled,
                   failed, gap, lastKind, balance>>

\* main.rs:72
SetLow_forgets ==
    /\ pc = "set_low"
    /\ settled' = FALSE
    /\ pc' = "settle_low"
    /\ UNCHANGED <<ci, ri, colLine, matrix, state, led, report, switches,
                   events, reports, prevMatrix, classes, polls, writes,
                   failed, gap, lastKind, balance>>

SetLow ==
    /\ pc = "set_low"
    /\ colLine' = [colLine EXCEPT ![ci] = FALSE]
    /\ settled' = FALSE
    /\ pc' = "settle_low"
    /\ UNCHANGED <<ci, ri, matrix, state, led, report, switches, events,
                   reports, prevMatrix, classes, polls, writes,
                   failed, gap, lastKind, balance>>

\* main.rs:73-76, 158-159: the delay, then the next column or the return to main
SettleLow ==
    /\ pc = "settle_low"
    /\ IF ci + 1 < COLS
         THEN ci' = ci + 1 /\ pc' = "set_high"
         ELSE ci' = 0 /\ pc' = "classify"
    /\ ri' = 0
    /\ UNCHANGED <<colLine, matrix, state, led, report, switches, events,
                   reports, prevMatrix, classes, polls, writes, settled,
                   failed, gap, lastKind, balance>>

\* main.rs:158-159, 153: the step of the two for loops after position (ci, ri)
Advance_rowMajor ==
    IF ci + 1 < COLS
      THEN ci' = ci + 1 /\ ri' = ri /\ pc' = "classify"
      ELSE IF ri + 1 < ROWS
        THEN ci' = 0 /\ ri' = ri + 1 /\ pc' = "classify"
        ELSE ci' = 0 /\ ri' = 0 /\ pc' = LoopBack

Advance ==
    IF ri + 1 < ROWS
      THEN ci' = ci /\ ri' = ri + 1 /\ pc' = "classify"
      ELSE IF ci + 1 < COLS
        THEN ci' = ci + 1 /\ ri' = 0 /\ pc' = "classify"
        ELSE ci' = 0 /\ ri' = 0 /\ pc' = LoopBack

\* main.rs:160-172
Classify ==
    /\ pc = "classify"
    /\ LET previous_state == state
           row == matrix[ci][ri]
           arm == MatchArm(previous_state, row)
       IN  /\ state' = StateAfter(previous_state, row)
           /\ led' = LedAfter(arm, led)
           /\ classes' = [classes EXCEPT ![ci][ri] = arm]
           /\ balance' = IF arm = "Pressed" THEN balance + 1
                          ELSE IF arm = "Released" THEN balance - 1
                          ELSE balance
           /\ IF CallsSendPress(arm)
                THEN pc' = "push_press" /\ UNCHANGED <<ci, ri>>
                ELSE Advance
    /\ UNCHANGED <<colLine, matrix, report, switches, events, reports,
                   prevMatrix, polls, writes, settled, failed, gap, lastKind>>

\* main.rs:41-49: push_input succeeds, or fails and unwrap panics
PushPress ==
    /\ pc = "push_press"
    /\ report' = PressReport(SingleKey(ci, ri))
    /\ \E ok \in BOOLEAN :
         /\ pc' = Unwrap(ok, "delay_press")
         /\ failed' = (failed \/ ~ok)
         /\ IF ok
              THEN /\ reports' = Append(reports, [pos |-> <<ci, ri>>, rep |-> report'])
                   /\ gap' = "pushed"
                   /\ lastKind' = KindOf(report')
              ELSE UNCHANGED <<reports, gap, lastKind>>
    /\ UNCHANGED <<ci, ri, colLine, matrix, state, led, switches, events,
                   prevMatrix, classes, polls, writes, settled, balance>>

\* main.rs:50
DelayPress_polls ==
    /\ pc = "delay_press"
    /\ gap' = AfterDelay(gap)
    /\ polls' = IF polls < 2 THEN polls + 1 ELSE polls
    /\ pc' = "push_release"
    /\ UNCHANGED <<ci, ri, colLine, matrix, state, led, report, switches,
                   events, reports, prevMatrix, classes, writes, settled,
                   failed, lastKind, balance>>

DelayPress ==
    /\ pc = "delay_press"
    /\ gap' = AfterDelay(gap)
    /\ pc' = "push_release"
    /\ UNCHANGED <<ci, ri, colLine, matrix, state, led, report, switches,
                   events, reports, prevMatrix, classes, polls, writes, settled,
                   failed, lastKind, balance>>

\* main.rs:52-53
PushRelease ==
    /\ pc = "push_release"
    /\ report' = ReleaseReport(report)
    /\ \E ok \in BOOLEAN :
         /\ pc' = Unwrap(ok, "delay_release")
         /\ failed' = (failed \/ ~ok)
         /\ IF ok
              THEN /\ reports' = Append(reports, [pos |-> <<ci, ri>>, rep |-> report'])
                   /\ gap' = "pushed"
                   /\ lastKind' = KindOf(report')
              ELSE UNCHANGED <<reports, gap, lastKind>>
    /\ UNCHANGED <<ci, ri, colLine, matrix, state, led, switches, events,
                   prevMatrix, classes, polls, writes, settled, balance>>

\* main.rs:54-55: the delay, the return to main and the next position
DelayRelease_noDelay ==
    /\ pc = "delay_release"
    /\ report' = EmptyReport
    /\ Advance
    /\ UNCHANGED <<colLine, matrix, state, led, switches, events, reports,
                   prevMatrix, classes, polls, writes, settled, failed, gap,
                   lastKind, balance>>

DelayRelease ==
    /\ pc = "delay_release"
    /\ gap' = AfterDelay(gap)
    /\ report' = EmptyReport
    /\ Advance
    /\ UNCHANGED <<colLine, matrix, state, led, switches, events, reports,
                   prevMatrix, classes, polls, writes, settled, failed,
                   lastKind, balance>>

Next ==
    \/ KeyEvent
    \/ Poll
    \/ ScanEnter
    \/ SetHigh
    \/ SettleHigh
    \/ SampleRow
    \/ SetLow
    \/ SettleLow
    \/ Classify
    \/ PushPress
    \/ DelayPress
    \/ PushRelease
    \/ DelayRelease

Spec == Init /\ [][Next]_vars

\* main.rs:153-175: the steps of the program (every action but the environment's)
ProgramStep ==
    \/ Poll
    \/ ScanEnter
    \/ SetHigh
    \/ SettleHigh
    \/ SampleRow
    \/ SetLow
    \/ SettleLow
    \/ Classify
    \/ PushPress
    \/ DelayPress
    \/ PushRelease
    \/ DelayRelease

\* The runs in which no push_input returns an error and at most LiveEvents
\* keys change. The core runs the one thread of main without interruption,
\* so a program step that is possible is eventually taken.
NextNoFail ==
    \/ KeyEvent /\ events < LiveEvents
    \/ Poll
    \/ ScanEnter
    \/ SetHigh
    \/ SettleHigh
    \/ SampleRow
    \/ SetLow
    \/ SettleLow
    \/ Classify
    \/ PushPress /\ ~failed'
    \/ DelayPress
    \/ PushRelease /\ ~failed'
    \/ DelayRelease

LiveSpec == Init /\ [][NextNoFail]_vars /\ WF_vars(ProgramStep /\ ~failed')

(***************************************************************************)
(* Vocabulary of the properties                                            *)
(***************************************************************************)
ScanStates == {"set_high", "settle_high", "sample", "set_low", "settle_low"}
SendStates == {"push_press", "delay_press", "push_release", "delay_release"}
InScan == pc \in ScanStates

\* The snapshot with the one position (c, r) closed.
Only(c, r) == [AllFalse EXCEPT ![c][r] = TRUE]

\* The reports pushed in this iteration while position (c, r) was processed.
ReportsOf(c, r) ==
    LET sel == SelectSeq(reports, LAMBDA e : e.pos = <<c, r>>)
    IN  [i \in 1..Len(sel) |-> sel[i].rep]

\* The non-zero keycodes a report holds.
KeycodesIn(rep) == {rep.keycodes[s] : s \in 0..5} \ {0}
SeqRange(q) == {q[i] : i \in 1..Len(q)}

\* The Pressed-edge handler of (c, r) has run in this iteration and returned.
HandlerDone(c, r) ==
    /\ classes[c][r] = "Pressed"
    /\ ~(<<ci, ri>> = <<c, r>> /\ pc \in SendStates \cup {"halted"})

\* The step that processes one position (main.rs:160-172).
ClassifyStep == pc = "classify" /\ classes' # classes

\* The step that samples one row line (main.rs:69).
SampleStep == pc = "sample" /\ writes' # writes

HighCols == {c \in ColIdx : colLine[c]}

(***************************************************************************)
(* C1. Held keys are idempotent: when the snapshot of a scan equals the    *)
(* snapshot of the scan before it and at most one position is closed (a    *)
(* key that stays closed, or all keys staying open), the iteration pushes  *)
(* no report.                                                              *)
(***************************************************************************)
C1_HeldKeyIdempotent ==
    (/\ ~InScan
     /\ prevMatrix = matrix
     /\ \/ matrix = AllFalse
        \/ \E c \in ColIdx, r \in RowIdx : matrix = Only(c, r))
    => reports = <<>>

(***************************************************************************)
(* C2. Round trip of one key: in the scan that first sees only (c, r)      *)
(* closed after an all-open scan the one classification that is not        *)
(* NoChange is a Pressed at (c, r); in the all-open scan after it the one  *)
(* classification that is not NoChange is a Released at (c, r).            *)
(***************************************************************************)
C2_RoundTrip ==
    pc \in {"poll", "scan_enter"} =>
      \A c \in ColIdx, r \in RowIdx :
        /\ (prevMatrix = AllFalse /\ matrix = Only(c, r)) =>
             classes = [x \in ColIdx |-> [y \in RowIdx |->
                               IF <<x, y>> = <<c, r>> THEN "Pressed" ELSE "NoChange"]]
        /\ (prevMatrix = Only(c, r) /\ matrix = AllFalse) =>
             classes = [x \in ColIdx |-> [y \in RowIdx |->
                               IF <<x, y>> = <<c, r>> THEN "Released" ELSE "NoChange"]]

(***************************************************************************)
(* C3. Per-key edge detection: the classification made for (c, r) is the   *)
(* edge between the previous snapshot's and this snapshot's value of       *)
(* (c, r), whatever the other positions hold.                              *)
(***************************************************************************)
C3_PerKeyEdge ==
    \A c \in ColIdx, r \in RowIdx :
      classes[c][r] # "-" =>
        classes[c][r] = MatchArm(prevMatrix[c][r], matrix[c][r])

(***************************************************************************)
(* C4. Unbound positions are silent: every report pushed is pushed while   *)
(* processing a position that has an entry in MACRO_MATRIX.                *)
(***************************************************************************)
C4_UnboundSilent ==
    \A i \in 1..Len(reports) : IsBound(reports[i].pos[1], reports[i].pos[2])

(***************************************************************************)
(* C5. Macro playback: when the Pressed-edge handler of a position bound   *)
(* to a macro of N chords has returned, it has pushed 2N reports: for each *)
(* chord in order a report holding exactly the chord's keycodes, then an   *)
(* all-zero report.                                                        *)
(***************************************************************************)
C5_MacroPlayback ==
    \A c \in ColIdx, r \in RowIdx :
      (IsBound(c, r) /\ HandlerDone(c, r)) =>
        LET m == MacroOf(c, r)
            rs == ReportsOf(c, r)
        IN  /\ Len(rs) = 2 * Len(m)
            /\ \A i \in 1..Len(m) :
                 /\ KeycodesIn(rs[2 * i - 1]) = SeqRange(m[i])
                 /\ KeycodesIn(rs[2 * i]) = {}

(***************************************************************************)
(* C6. Single-key press: when the Pressed-edge handler of a position has   *)
(* returned it has pushed exactly two reports: first modifier 0, reserved  *)
(* 0, keycode slot 0 holding the position's keycode and slots 1..5 zero,   *)
(* then a report whose six slots are zero. While the handler runs it has   *)
(* pushed a prefix of these two.                                           *)
(***************************************************************************)
C6_SingleKeyPress ==
    \A c \in ColIdx, r \in RowIdx :
      LET rs == ReportsOf(c, r)
          pressOk == /\ rs[1].modifier = 0
                     /\ rs[1].reserved = 0
                     /\ rs[1].keycodes =
                          [s \in 0..5 |-> IF s = 0 THEN SingleKey(c, r) ELSE 0]
          releaseOk == /\ rs[2].keycodes = [s \in 0..5 |-> 0]
      IN  /\ HandlerDone(c, r) => (Len(rs) = 2 /\ pressOk /\ releaseOk)
          /\ Len(rs) <= 2
          /\ Len(rs) >= 1 => pressOk
          /\ Len(rs) = 2 => releaseOk

C6_Witness ==
    \E c \in ColIdx, r \in RowIdx :
      /\ HandlerDone(c, r)
      /\ Len(ReportsOf(c, r)) = 2
      /\ pc = "classify"

(***************************************************************************)
(* C7. Release edges do not report: the step that processes a position     *)
(* whose value is false after a true pushes no report and starts no        *)
(* report sequence; it sets the tracker state and the LED to false and     *)
(* changes nothing else but the loop position. No report of an iteration   *)
(* belongs to a position whose snapshot value is false.                    *)
(***************************************************************************)
C7_ReleaseSilent ==
    /\ [](\A c \in ColIdx, r \in RowIdx :
            (classes[c][r] = "Released" \/ (~InScan /\ ~matrix[c][r]))
              => ReportsOf(c, r) = <<>>)
    /\ [][(ClassifyStep /\ state /\ ~matrix[ci][ri]) =>
            /\ classes'[ci][ri] = "Released"
            /\ reports' = reports
            /\ pc' \notin SendStates \cup {"halted"}
            /\ state' = FALSE
            /\ led' = FALSE
            /\ UNCHANGED <<colLine, matrix, report, switches, events,
                           prevMatrix, polls, writes, settled, failed, gap,
                           lastKind>>]_vars

C7_Witness ==
    \E c \in ColIdx, r \in RowIdx :
      /\ classes[c][r] = "Released"
      /\ ~led
      /\ reports = <<>>
      /\ \E x \in ColIdx, y \in RowIdx :
           prevMatrix[x][y] /\ ~matrix[x][y] /\ classes[x][y] # "-"

(***************************************************************************)
(* C8. USB servicing every iteration: scan_matrix is called after exactly  *)
(* one USB poll since the previous call, and no poll happens anywhere else *)
(* in the iteration, whatever the snapshots and the edges.                 *)
(***************************************************************************)
C8_PollBeforeScan ==
    polls = IF pc = "scan_enter" THEN 1 ELSE 0

C8_Witness ==
    /\ pc = "scan_enter"
    /\ polls = 1
    /\ reports # <<>>

(***************************************************************************)
(* C9. One column at a time: at most one column line is high, and only the *)
(* column being scanned between its set_high and its set_low; a column     *)
(* line goes high only when every column line is low; outside scan_matrix  *)
(* every column line is low.                                               *)
(***************************************************************************)
C9_OneColumn ==
    /\ [](/\ Cardinality(HighCols) <= 1
          /\ \A c \in ColIdx :
               colLine[c] <=>
                 (c = ci /\ pc \in {"settle_high", "sample", "set_low"}))
    /\ [][\A c \in ColIdx :
            (~colLine[c] /\ colLine'[c]) => HighCols = {}]_vars

C9_Witness ==
    /\ pc = "sample"
    /\ ci = COLS - 1
    /\ HighCols = {COLS - 1}

(***************************************************************************)
(* C10. Snapshot correctness: the step that samples row r for column c     *)
(* runs after the settle delay while column c and only column c is high,   *)
(* writes into matrix[c][r] the level of row line r at that moment (which  *)
(* is the state of the switch at (c, r)), writes no other entry, and       *)
(* writes (c, r) for the first time in this scan; when scan_matrix has     *)
(* returned every position has been written exactly once.                  *)
(***************************************************************************)
C10_Snapshot ==
    /\ [](pc \in {"classify"} \cup SendStates =>
            \A c \in ColIdx, r \in RowIdx : writes[c][r] = 1)
    /\ [][SampleStep =>
            /\ settled
            /\ HighCols = {ci}
            /\ matrix'[ci][ri] = RowIsHigh(ri)
            /\ matrix'[ci][ri] = switches[ci][ri]
            /\ \A c \in ColIdx, r \in RowIdx :
                 <<c, r>> # <<ci, ri>> => matrix'[c][r] = matrix[c][r]
            /\ writes[ci][ri] = 0
            /\ writes'[ci][ri] = 1]_vars

C10_Witness ==
    /\ pc = "classify"
    /\ \A c \in ColIdx, r \in RowIdx : writes[c][r] = 1
    /\ matrix = switches
    /\ \E c \in ColIdx, r \in RowIdx : matrix[c][r] /\ c > 0 /\ r > 0

\* The place of (c, r) in the order of the two for loops of main.
Idx(c, r) == c * ROWS + r

\* The step that pushes a report (main.rs:49, 53).
PushStep == Len(reports') > Len(reports)

(***************************************************************************)
(* C11. Fatal transport failure: the push that returns an error pushes     *)
(* nothing and halts the firmware; from then on no report is pushed and no *)
(* scan, classification or USB poll takes place.                           *)
(***************************************************************************)
C11_FatalHalt ==
    /\ [](failed => pc = "halted")
    /\ [][(~failed /\ failed') => (reports' = reports /\ pc' = "halted")]_vars
    /\ [][failed => UNCHANGED <<pc, ci, ri, reports, polls, classes, writes,
                                matrix, colLine, state, led, lastKind>>]_vars

C11_Witness ==
    /\ failed
    /\ pc = "halted"
    /\ Len(reports) = 1

(***************************************************************************)
(* C12. Tracker state is always refreshed: the step that processes a       *)
(* position leaves the stored state equal to the snapshot value read for   *)
(* that position, in the Pressed, Released and NoChange cases alike.       *)
(***************************************************************************)
C12_TrackerRefreshed ==
    /\ [](pc \in SendStates => state = matrix[ci][ri])
    /\ [][ClassifyStep =>
            /\ state' = matrix[ci][ri]
            /\ classes'[ci][ri] \in {"Pressed", "Released", "NoChange"}]_vars

C12_Witness ==
    /\ pc = "poll"
    /\ state = matrix[COLS - 1][ROWS - 1]
    /\ \A a \in {"Pressed", "Released", "NoChange"} :
         \E c \in ColIdx, r \in RowIdx : classes[c][r] = a

(***************************************************************************)
(* C13. Report emission runs to completion: from the push of the press     *)
(* report to the push of the release report of one handler there is no USB *)
(* poll, no step of a matrix scan and no classification; the program stays *)
(* in send_press at the same position.                                     *)
(***************************************************************************)
C13_RunToCompletion ==
    [][(pc = "delay_press" \/ pc = "push_release") =>
         /\ polls' = polls
         /\ classes' = classes
         /\ writes' = writes
         /\ matrix' = matrix
         /\ colLine' = colLine
         /\ <<ci', ri'>> = <<ci, ri>>
         /\ pc' \in {"delay_press", "push_release", "delay_release",
                    "halted"}]_vars

C13_Witness ==
    /\ pc = "delay_release"
    /\ Len(ReportsOf(ci, ri)) = 2
    /\ polls = 0

(***************************************************************************)
(* C14. Inter-report delay ordering: a pushed report is followed by        *)
(* exactly one delay of the polling interval before the next report push,  *)
(* USB poll, scan or classification; the program is in a delay exactly     *)
(* when the last push has not been followed by a delay yet.                *)
(***************************************************************************)
C14_InterReportDelay ==
    /\ gap \in {"none", "pushed", "delayed"}
    /\ pc # "halted" => (gap = "pushed" <=> pc \in {"delay_press", "delay_release"})
    /\ pc = "halted" => gap \in {"none", "delayed"}

C14_Witness ==
    /\ pc = "push_press"
    /\ gap = "delayed"
    /\ Len(reports) = 2

(***************************************************************************)
(* C15. Deterministic column-major processing: the positions are processed *)
(* in the order (0,0), (0,1), ..., (COLS-1,ROWS-1), each exactly once per  *)
(* iteration, and the reports of an iteration are pushed in that order of  *)
(* their positions.                                                        *)
(***************************************************************************)
C15_ColumnMajor ==
    /\ [](\A i, j \in 1..Len(reports) :
            i < j => Idx(reports[i].pos[1], reports[i].pos[2])
                       <= Idx(reports[j].pos[1], reports[j].pos[2]))
    /\ [](pc \in {"classify"} \cup SendStates =>
            \A c \in ColIdx, r \in RowIdx :
              classes[c][r] # "-" <=>
                \/ Idx(c, r) < Idx(ci, ri)
                \/ Idx(c, r) = Idx(ci, ri) /\ pc \in SendStates)
    /\ [](pc \in {"poll", "scan_enter"} =>
            \/ classes = NoClass
            \/ \A c \in ColIdx, r \in RowIdx : classes[c][r] # "-")
    /\ [][ClassifyStep =>
            /\ classes[ci][ri] = "-"
            /\ \A c \in ColIdx, r \in RowIdx :
                 <<c, r>> # <<ci, ri>> => classes'[c][r] = classes[c][r]]_vars

C15_Witness ==
    /\ pc = "poll"
    /\ Len(reports) = 4
    /\ reports[1].pos # reports[4].pos
    /\ \A c \in ColIdx, r \in RowIdx : classes[c][r] # "-"

(***************************************************************************)
(* C16. The loop never stops: when no push fails the program never halts,  *)
(* every scan and every report sequence finishes, and from every state a   *)
(* further USB poll and a further call of scan_matrix eventually occur.    *)
(***************************************************************************)
C16_LoopNeverStops ==
    /\ [](pc # "halted")
    /\ []<><<Poll>>_vars
    /\ []<><<ScanEnter>>_vars
    /\ (pc \in ScanStates) ~> (pc = "classify")
    /\ (pc \in SendStates) ~> (pc \in {"classify", "poll"})

C16_Witness ==
    /\ pc = "poll"
    /\ events = LiveEvents
    /\ prevMatrix = matrix
    /\ Len(reports) = 2
    /\ lastKind = "zero"

(***************************************************************************)
(* C17. No stuck key: over the whole run the pushed reports alternate      *)
(* between one with a non-zero keycode slot and an all-zero one, the first *)
(* being non-zero; at every USB poll, scan and classification the last     *)
(* report pushed, if any, is all-zero.                                     *)
(***************************************************************************)
C17_NoStuckKey ==
    /\ [](pc \in {"poll", "scan_enter", "classify", "push_press"} \cup ScanStates
            => lastKind \in {"none", "zero"})
    /\ [][PushStep =>
            lastKind' = IF lastKind \in {"none", "zero"}
                          THEN "nonzero" ELSE "zero"]_vars
    /\ [][lastKind' # lastKind => PushStep]_vars

C17_Witness ==
    /\ pc = "poll"
    /\ lastKind = "zero"
    /\ reports = <<>>
    /\ polls = 0

(***************************************************************************)
(* C18. Global alternation of edges: the number of Pressed arms taken      *)
(* minus the number of Released arms taken, over all positions and the     *)
(* whole run, is 0 or 1.                                                   *)
(***************************************************************************)
C18_EdgeAlternation ==
    balance \in {0, 1}

C18_Witness ==
    /\ balance = 0
    /\ Len(reports) = 4
    /\ reports[1].pos # reports[4].pos
    /\ \E c \in ColIdx, r \in RowIdx : classes[c][r] = "Released"

(***************************************************************************)
(* C19. Status LED mirrors tracker state: after every step the LED is high *)
(* exactly when the stored state is true; the LED changes only in the step *)
(* of a Pressed arm (to high) or of a Released arm (to low).               *)
(***************************************************************************)
C19_LedMirrorsState ==
    /\ [](led = state)
    /\ [][led' # led =>
            /\ ClassifyStep
            /\ classes'[ci][ri] \in {"Pressed", "Released"}
            /\ led' = (classes'[ci][ri] = "Pressed")]_vars

C19_Witness ==
    /\ pc = "poll"
    /\ led
    /\ state
    /\ \E c \in ColIdx, r \in RowIdx : classes[c][r] = "NoChange"

====
